---------------------------- MODULE Spec2Model ----------------------------
(***************************************************************************)
(* A model of the link-budget engine of BLOStool: the LinkBudget class of  *)
(* src/src/physics.py, the geometry that src/src/visualization.py draws    *)
(* from it, and the two callers src/app.py and src/verify.py.              *)
(*                                                                         *)
(* Numbers.  The program computes in IEEE float64.  The model computes the *)
(* geometry (sample distances, bulge, ray, clearance, the argmin over the  *)
(* samples, every comparison with 0) in exact integer arithmetic on        *)
(* numbers wider than TLC's 32-bit integers ("wide" numbers, W...), and    *)
(* reports values in fixed point.  A clearance, a sample distance and a    *)
(* Fresnel radius are rounded away from 0, so that each is 0, below 0 or   *)
(* above 0 exactly when the exact value is, as a float64 in its normal     *)
(* range is; v_param is rounded up, so that v_param > -0.7 holds exactly   *)
(* when it does for the quotient; the other values are rounded down:       *)
(*     heights, dist_m            metres                                   *)
(*     dist_km                    1/KmScale km                             *)
(*     freq_hz                    HzScale Hz  (MHz)                        *)
(*     wavelength, min_clearance  1/UmScale m  (micrometres)               *)
(*     d_obstruction, f1, d1      1/MmScale m  (millimetres)               *)
(*     every dB value, v_param    1/DbScale    (milli)                     *)
(*     spectral_eff, throughput   1/EffScale                               *)
(* A float that may be nan or infinite is a record [k, v] with k one of    *)
(* "fin", "nan", "inf", "ninf" (v is 0 unless k = "fin").                  *)
(***************************************************************************)
EXTENDS Integers, Sequences, FiniteSets, TLC

(***************************************************************************)
(* Fixed-point scales of the model.                                        *)
(***************************************************************************)
KmScale == 100
HzScale == 1000000
UmScale == 1000000
MmScale == 1000
DbScale == 1000
EffScale == 10
LogScale == 100000

(***************************************************************************)
(* Wide integers: WLen limbs in base WBase, least significant first.  The  *)
(* limbs below the last are in 0..WBase-1; the last limb carries the sign. *)
(* They stand for the float64 mantissa, which holds these integers exactly.*)
(***************************************************************************)
WBase == 1000
WLen == 9

RECURSIVE WNormFrom(_, _, _)
WNormFrom(s, i, carry) ==
    IF i = WLen THEN <<s[i] + carry>>
    ELSE LET y == s[i] + carry
         IN  <<y % WBase>> \o WNormFrom(s, i + 1, y \div WBase)

WNorm(s) == WNormFrom(s, 1, 0)

WInt(n) == WNorm([i \in 1..WLen |-> IF i = 1 THEN n ELSE 0])

\* a * k for an integer k with |k| <= 2 * 10^6
WMul(a, k) == WNorm([i \in 1..WLen |-> a[i] * k])

WAdd(a, b) == WNorm([i \in 1..WLen |-> a[i] + b[i]])

WSub(a, b) == WNorm([i \in 1..WLen |-> a[i] - b[i]])

WIsNeg(a) == a[WLen] < 0

WIsZero(a) == \A i \in 1..WLen : a[i] = 0

RECURSIVE WLessFrom(_, _, _)
WLessFrom(a, b, i) ==
    IF i = 0 THEN FALSE
    ELSE IF a[i] # b[i] THEN a[i] < b[i]
    ELSE WLessFrom(a, b, i - 1)

\* a < b, for normalised a and b
WLess(a, b) == WLessFrom(a, b, WLen)

\* a * b for a, b >= 0 (schoolbook)
WMulW(a, b) ==
    WNorm([i \in 1..WLen |->
        LET RECURSIVE Col(_)
            Col(p) == IF p > i THEN 0 ELSE a[p] * b[i + 1 - p] + Col(p + 1)
        IN  Col(1)])

RECURSIVE WDivFrom(_, _, _, _)
WDivFrom(a, k, i, rem) ==
    IF i = 0 THEN <<>>
    ELSE LET y == rem * WBase + a[i]
         IN  WDivFrom(a, k, i - 1, y % k) \o <<y \div k>>

\* floor(a / k) for an integer k with 0 < k <= 2 * 10^6
WDiv(a, k) == WDivFrom(a, k, WLen - 1, a[WLen] % k) \o <<a[WLen] \div k>>

RECURSIVE WToIntFrom(_, _)
WToIntFrom(a, i) ==
    IF i = WLen THEN a[i] ELSE a[i] + WBase * WToIntFrom(a, i + 1)

\* the value of a, which must fit TLC's integers
WToInt(a) == WToIntFrom(a, 1)

RECURSIVE ISqrtIn(_, _, _)
ISqrtIn(n, lo, hi) ==
    IF lo = hi THEN lo
    ELSE LET m == (lo + hi + 1) \div 2
         IN  IF m * m > n THEN ISqrtIn(n, lo, m - 1) ELSE ISqrtIn(n, m, hi)

RECURSIVE SqrtLowIn(_, _, _, _)
SqrtLowIn(s, rem, lo, hi) ==
    IF lo = hi THEN lo
    ELSE LET m == (lo + hi + 1) \div 2
         IN  IF 2 * WBase * s * m + m * m > rem
             THEN SqrtLowIn(s, rem, lo, m - 1)
             ELSE SqrtLowIn(s, rem, m, hi)

\* floor(sqrt(a)) for 0 <= a < 10^12  (np.sqrt): the root's thousands s from
\* the limbs above the second, then its units t, (1000 s + t)^2 <= a
WSqrt(a) ==
    LET ql == a[1] + WBase * a[2]
        qh == a[3] + WBase * a[4]
        s == ISqrtIn(qh, 0, WBase - 1)
        rem == (qh - s * s) * (WBase * WBase) + ql
    IN  WBase * s + SqrtLowIn(s, rem, 0, WBase - 1)

(***************************************************************************)
(* np.log10 of a positive integer n, in units of 1/LogScale, by the binary *)
(* logarithm (14 fraction bits) times log10(2).                            *)
(***************************************************************************)
RECURSIVE ILog2(_)
ILog2(n) == IF n < 2 THEN 0 ELSE 1 + ILog2(n \div 2)

RECURSIVE Log2Frac(_, _, _)
Log2Frac(m, bits, acc) ==
    IF bits = 0 THEN acc
    ELSE LET q == (m * m) \div 16384
         IN  IF q >= 32768
             THEN Log2Frac(q \div 2, bits - 1, 2 * acc + 1)
             ELSE Log2Frac(q, bits - 1, 2 * acc)

Log10Fix(n) ==
    LET e == ILog2(n)
        m == IF e <= 14 THEN n * 2^(14 - e) ELSE n \div 2^(e - 14)
        frac == Log2Frac(m, 14, 0)
    IN  e * 30103 + (frac * 30103) \div 16384

(***************************************************************************)
(* Floats that may be nan or infinite.                                     *)
(***************************************************************************)
Fin(v) == [k |-> "fin", v |-> v]
NaN == [k |-> "nan", v |-> 0]
PInf == [k |-> "inf", v |-> 0]
NInf == [k |-> "ninf", v |-> 0]

IsFin(x) == x.k = "fin"

XNeg(x) ==
    CASE x.k = "fin" -> Fin(-x.v)
      [] x.k = "inf" -> NInf
      [] x.k = "ninf" -> PInf
      [] OTHER -> NaN

XAdd(x, y) ==
    CASE x.k = "nan" \/ y.k = "nan" -> NaN
      [] x.k = "fin" /\ y.k = "fin" -> Fin(x.v + y.v)
      [] x.k = "fin" -> y
      [] y.k = "fin" -> x
      [] x.k = y.k -> x
      [] OTHER -> NaN

XSub(x, y) == XAdd(x, XNeg(y))

\* x < y in float64: false when either is nan
XLess(x, y) ==
    CASE x.k = "nan" \/ y.k = "nan" -> FALSE
      [] x.k = "fin" /\ y.k = "fin" -> x.v < y.v
      [] x.k = "ninf" -> y.k # "ninf"
      [] y.k = "inf" -> x.k # "inf"
      [] OTHER -> FALSE

\* k * np.log10(n * 10^shift) in 1/DbScale, for an integer n and k in {10, 20}:
\* -inf at 0 and nan below 0, as numpy gives (with a RuntimeWarning)
XLog10(k, n, shift) ==
    IF n > 0 THEN Fin((k * (Log10Fix(n) + shift * LogScale)) \div (LogScale \div DbScale))
    ELSE IF n = 0 THEN NInf
    ELSE NaN

\* floor(a / k) for k > 0 when a < 0, and ceiling(a / k) when a >= 0
WDivAway(a, k) ==
    IF WIsNeg(a) THEN WDiv(a, k)
    ELSE WSub(WInt(0), WDiv(WSub(WInt(0), a), k))

\* ceiling(sqrt(a)) for a >= 0
WSqrtUp(a) == IF WIsZero(a) THEN 0 ELSE WSqrt(WSub(a, WInt(1))) + 1

(***************************************************************************)
(* LinkBudget.__init__: the constants and the attributes.                  *)
(***************************************************************************)
c == 300000000
k_factor == 133
KScale == 100
earth_radius_km == 6371
sqrt2 == 1414214
steps == 1000

\* self.k_factor * self.earth_radius_km * 1000
eff_earth_radius_m == (k_factor * earth_radius_km * 1000) \div KScale

ZeroDivisionError == "ZeroDivisionError"
NoError == "none"

\* whether __init__ raises: self.c / self.freq_hz with freq_hz = 0.0
InitRaises(cfg) == cfg.freq_mhz = 0

LinkBudget(cfg) ==
    [ freq_mhz |-> cfg.freq_mhz,
      freq_hz |-> cfg.freq_mhz,
      bandwidth_mhz |-> cfg.bandwidth_mhz,
      dist_km |-> cfg.dist_km,
      dist_m |-> (cfg.dist_km * 1000) \div KmScale,
      tx_h_m |-> cfg.tx_h_m,
      rx_h_m |-> cfg.rx_h_m,
      tx_p_dbm |-> cfg.tx_p_dbm,
      tx_g_dbi |-> cfg.tx_g_dbi,
      tx_l_db |-> cfg.tx_l_db,
      rx_g_dbi |-> cfg.rx_g_dbi,
      rx_l_db |-> cfg.rx_l_db,
      rx_nf_db |-> cfg.rx_nf_db,
      fade_margin_db |-> cfg.fade_margin_db,
      impl_loss_db |-> cfg.impl_loss_db,
      c |-> c,
      k_factor |-> k_factor,
      earth_radius_km |-> earth_radius_km,
      eff_earth_radius_m |-> eff_earth_radius_m,
      wavelength |-> IF cfg.freq_mhz = 0 THEN 0 ELSE c \div cfg.freq_mhz ]

(***************************************************************************)
(* calculate_fspl: 20 log10(dist_m) + 20 log10(freq_hz) - 147.55           *)
(***************************************************************************)
calculate_fspl(self) ==
    XAdd(XAdd(XLog10(20, self.dist_m, 0), XLog10(20, self.freq_hz, 6)),
         Fin(-147550))

(***************************************************************************)
(* calculate_fresnel_radius(d1_m): d1 and the result in millimetres.       *)
(***************************************************************************)
\* np.sqrt((wavelength * d1 * d2) / (d1 + d2)) for d1 + d2 # 0: wavelength in
\* micrometres, d1 and d2 in millimetres; nan when the quotient is below 0
FresnelSqrt(wavelength, d1, d2) ==
    LET Abs(x) == IF x < 0 THEN -x ELSE x
        Sgn(x) == IF x < 0 THEN -1 ELSE 1
        prod == WMulW(WMulW(WInt(Abs(wavelength)), WInt(Abs(d1))), WInt(Abs(d2)))
        quot == WDivAway(WDivAway(WDivAway(prod, MmScale), MmScale),
                         Abs(d1 + d2) \div MmScale)
    IN  IF WIsZero(prod) THEN Fin(0)
        ELSE IF Sgn(wavelength) * Sgn(d1) * Sgn(d2) * Sgn(d1 + d2) < 0 THEN NaN
        ELSE Fin(WSqrtUp(quot))

\* line 41 without the guard of lines 37-38
fresnel_radius_unguarded(self, d1_m) ==
    FresnelSqrt(self.wavelength, d1_m, self.dist_m * MmScale - d1_m)

calculate_fresnel_radius(self, d1_m) ==
    IF d1_m <= 0 \/ d1_m >= self.dist_m * MmScale THEN Fin(0)
    ELSE FresnelSqrt(self.wavelength, d1_m, self.dist_m * MmScale - d1_m)

(***************************************************************************)
(* calculate_diffraction_loss.  With n = steps - 1 and D = dist_m, sample  *)
(* i of np.linspace(0, D, steps) is at d = i D / n, and over the common    *)
(* denominator n n 2 Re:                                                   *)
(*     h_bulge_vec[i] = d (D - d) / (2 Re)      = i (n - i) D D            *)
(*     h_ray_vec[i]   = tx_h + slope d          = 2 Re n (tx_h (n - i) + rx_h i) *)
(***************************************************************************)
\* d_vec[i], in millimetres
d_vec(self, i) ==
    WToInt(WDivAway(WMul(WMul(WInt(self.dist_m), i), MmScale), steps - 1))

\* the clearance without the bulge of line 75
ClearanceFlatEarth(n, Kt, Kr, DD, i) ==
    WNorm([j \in 1..WLen |-> Kt[j] * (n - i) + Kr[j] * i])

\* h_ray - h_bulge at sample i of n intervals, as a numerator over n n 2 Re:
\* Kt and Kr are 2 Re n tx_h and 2 Re n rx_h, DD is D D
ClearanceAt(n, Kt, Kr, DD, i) ==
    WNorm([j \in 1..WLen |->
        (Kt[j] * (n - i) + Kr[j] * i) - DD[j] * (i * (n - i))])

\* clearance_vec = h_ray_vec - h_bulge_vec, as numerators over (steps-1)^2 * 2 Re
clearance_vec(self) ==
    LET n == steps - 1
        K == WMul(WInt(2 * self.eff_earth_radius_m), n)
        Kt == WMul(K, self.tx_h_m)
        Kr == WMul(K, self.rx_h_m)
        DD == WMul(WInt(self.dist_m), self.dist_m)
    IN  [i \in 0..n |-> ClearanceAt(n, Kt, Kr, DD, i)]

\* the numerator x over n n 2 Re, in micrometres
ClearanceValue(self, n, x) ==
    WToInt(WDivAway(WDivAway(WDivAway(WDivAway(WMul(x, UmScale), n), n),
                             20), self.eff_earth_radius_m \div 10))

\* an argmin that returns the last index of the least value
RECURSIVE argmin_last(_, _, _)
argmin_last(vec, lo, hi) ==
    IF lo = hi THEN lo
    ELSE LET m == (lo + hi) \div 2
             a == argmin_last(vec, lo, m)
             b == argmin_last(vec, m + 1, hi)
         IN  IF WLess(vec[a], vec[b]) THEN a ELSE b

\* np.argmin over indices lo..hi: the first index of the least value
RECURSIVE argmin(_, _, _)
argmin(vec, lo, hi) ==
    IF lo = hi THEN lo
    ELSE LET m == (lo + hi) \div 2
             a == argmin(vec, lo, m)
             b == argmin(vec, m + 1, hi)
         IN  IF WLess(vec[b], vec[a]) THEN b ELSE a

\* ceiling(a / k) for k > 0
WDivUp(a, k) ==
    IF WIsZero(a) THEN a ELSE WSub(WInt(0), WDiv(WSub(WInt(0), a), k))

\* line 115 without the -1
VParamUnsigned(min_clearance, f1) ==
    WToInt(WDivUp(WDivUp(WDivUp(WMul(WInt(min_clearance), sqrt2),
                                MmScale), MmScale), f1))

\* v_param = -1 * min_clearance * np.sqrt(2) / f1, for a finite f1 > 0, in
\* 1/DbScale and rounded up, so that v_param > -0.7 is decided exactly
VParam(min_clearance, f1) ==
    WToInt(WDivUp(WDivUp(WDivUp(WMul(WInt(-min_clearance), sqrt2),
                                MmScale), MmScale), f1))

\* 6.9 + 20 * np.log10(np.sqrt((v - 0.1)**2 + 1) + v - 0.1)
KnifeEdgeLoss(v_param) ==
    LET w == v_param - DbScale \div 10
        a == IF w < 0 THEN -w ELSE w
        root == WSqrt(WAdd(WMulW(WInt(a), WInt(a)), WInt(DbScale * DbScale)))
    IN  XAdd(Fin(6900), XLog10(20, root + w, -3)).v

Max(a, b) == IF a >= b THEN a ELSE b

\* the tuple calculate_diffraction_loss returns, or the exception of
\* slope = (rx_h_m - tx_h_m) / dist_m
calculate_diffraction_loss(self) ==
    IF self.dist_m = 0 THEN [exc |-> ZeroDivisionError, formula |-> "none"]
    ELSE
    LET vec == clearance_vec(self)
        valid_lo == IF steps < 3 THEN 0 ELSE 1
        valid_hi == IF steps < 3 THEN steps - 1 ELSE steps - 2
        idx == argmin(vec, valid_lo, valid_hi)
        min_clearance == ClearanceValue(self, steps - 1, vec[idx])
        d_obstruction == d_vec(self, idx)
        f1 == calculate_fresnel_radius(self, d_obstruction)
        v_param == IF f1 = Fin(0) THEN Fin(-100 * DbScale)
                   ELSE IF f1.k = "nan" THEN NaN
                   ELSE Fin(VParam(min_clearance, f1.v))
        loss_db == IF XLess(Fin(-700), v_param) THEN KnifeEdgeLoss(v_param.v) ELSE 0
    IN  [exc |-> NoError,
         formula |-> "knife_edge",
         loss_db |-> Max(loss_db, 0),
         min_clearance |-> min_clearance,
         f1 |-> f1,
         d_obstruction |-> d_obstruction]

(***************************************************************************)
(* calculate_thermal_noise: -174 + 10 log10(bandwidth_mhz * 1e6) + rx_nf   *)
(***************************************************************************)
calculate_thermal_noise(self) ==
    XAdd(XAdd(Fin(-174 * DbScale), XLog10(10, self.bandwidth_mhz, 6)), Fin(self.rx_nf_db))

(***************************************************************************)
(* run: the dict it returns, or the exception it raises.                   *)
(***************************************************************************)
Modulation(snr_db) ==
    IF XLess(snr_db, Fin(6 * DbScale)) THEN "No Link"
    ELSE IF XLess(snr_db, Fin(10 * DbScale)) THEN "QPSK 1/2"
    ELSE IF XLess(snr_db, Fin(15 * DbScale)) THEN "16QAM 1/2"
    ELSE IF XLess(snr_db, Fin(20 * DbScale)) THEN "16QAM 3/4"
    ELSE IF XLess(snr_db, Fin(25 * DbScale)) THEN "64QAM 2/3"
    ELSE IF XLess(snr_db, Fin(30 * DbScale)) THEN "64QAM 3/4"
    ELSE "256QAM"

SpectralEff(snr_db) ==
    IF XLess(snr_db, Fin(6 * DbScale)) THEN 0
    ELSE IF XLess(snr_db, Fin(10 * DbScale)) THEN 1 * EffScale
    ELSE IF XLess(snr_db, Fin(15 * DbScale)) THEN 2 * EffScale
    ELSE IF XLess(snr_db, Fin(20 * DbScale)) THEN 3 * EffScale
    ELSE IF XLess(snr_db, Fin(25 * DbScale)) THEN 4 * EffScale
    ELSE IF XLess(snr_db, Fin(30 * DbScale)) THEN (9 * EffScale) \div 2
    ELSE 6 * EffScale

\* line 135 with the diffraction loss subtracted
TotalLossDiffractionSubtracted(self, fspl, diff_loss) ==
    XAdd(XAdd(XAdd(XAdd(XSub(fspl, Fin(diff_loss)), Fin(self.tx_l_db)),
                   Fin(self.rx_l_db)), Fin(self.impl_loss_db)), Fin(self.fade_margin_db))

\* line 135 without the fade margin
TotalLossNoFadeMargin(self, fspl, diff_loss) ==
    XAdd(XAdd(XAdd(XAdd(fspl, Fin(diff_loss)), Fin(self.tx_l_db)),
              Fin(self.rx_l_db)), Fin(self.impl_loss_db))

TotalLoss(self, fspl, diff_loss) ==
    XAdd(XAdd(XAdd(XAdd(XAdd(fspl, Fin(diff_loss)), Fin(self.tx_l_db)),
                   Fin(self.rx_l_db)), Fin(self.impl_loss_db)), Fin(self.fade_margin_db))

\* the dict of lines 188-201
ResultDict(self, fspl, diff, total_loss, rsl, noise_floor, snr_db) ==
    [ fspl |-> fspl,
      diffraction_loss |-> diff.loss_db,
      total_loss |-> total_loss,
      rsl |-> rsl,
      noise_floor |-> noise_floor,
      snr |-> snr_db,
      min_clearance |-> diff.min_clearance,
      f1_at_obstruction |-> diff.f1,
      d_obstruction |-> diff.d_obstruction,
      throughput_mbps |-> SpectralEff(snr_db) * self.bandwidth_mhz,
      modulation |-> Modulation(snr_db),
      is_los |-> diff.min_clearance > 0 ]

\* the one element of a singleton set: {e(x) : x \in {v}} computes v once, as
\* an assignment x = v does
The(S) == CHOOSE x \in S : TRUE

\* lines 138-201, with fspl, the diffraction tuple and total_loss computed
RunFrom(self, fspl, diff, total_loss) ==
    The({ The({ ResultDict(self, fspl, diff, total_loss, rsl, noise_floor, snr_db)
                : snr_db \in {XSub(rsl, noise_floor)} })
          : rsl \in {XSub(Fin(self.tx_p_dbm + (self.tx_g_dbi + self.rx_g_dbi)), total_loss)},
            noise_floor \in {calculate_thermal_noise(self)} })

run(self) ==
    The({ IF diff.exc # NoError
          THEN [exc |-> diff.exc, formula |-> diff.formula, val |-> <<>>]
          ELSE [exc |-> NoError,
                formula |-> diff.formula,
                val |-> << The({ RunFrom(self, fspl, diff, total_loss)
                                 : total_loss \in {TotalLoss(self, fspl, diff.loss_db)} }) >>]
          : fspl \in {calculate_fspl(self)},
            diff \in {calculate_diffraction_loss(self)} })

\* run() leaving a halved wavelength behind
attrs_wavelength_halved(self) == [self EXCEPT !.wavelength = self.wavelength \div 2]

\* the attributes of self when run() returns: run() and the calculate_*
\* methods it calls read self.* and assign none of them
attrs_after_run(self) == self

(***************************************************************************)
(* plot_earth_slice (src/src/visualization.py): the arrays it draws.  With *)
(* m = VizPoints - 1, sample j of np.linspace(0, D, VizPoints) is at       *)
(* x = j D / m, and over the common denominator m m 2 Re:                  *)
(*     y_earth[j] = -x x / (2 Re)           = -j j D D                     *)
(*     y_los[j]   = tx_h + slope x          = 2 Re m (tx_h (m - j) + rx_h j) - m j D D *)
(* f1 is in millimetres.  The mask of the 'Obstruction' markers compares   *)
(* y_earth with y_los - f1 at a resolution of one micrometre.              *)
(***************************************************************************)
VizPoints == 500

plot_earth_slice(self) ==
    IF self.dist_m = 0
    THEN [x |-> <<>>, y_earth |-> <<>>, y_los |-> <<>>, f1 |-> <<>>, obstruction |-> {}]
    ELSE
    LET m == VizPoints - 1
        K == WMul(WInt(2 * self.eff_earth_radius_m), m)
        Kt == WMul(K, self.tx_h_m)
        Kr == WMul(K, self.rx_h_m)
        DD == WMul(WInt(self.dist_m), self.dist_m)
        x == [j \in 0..m |->
                WToInt(WDivAway(WMul(WMul(WInt(self.dist_m), j), MmScale), m))]
        y_earth == [j \in 0..m |-> WNorm([l \in 1..WLen |-> -(DD[l] * (j * j))])]
        y_los == [j \in 0..m |->
                    WNorm([l \in 1..WLen |->
                        (Kt[l] * (m - j) + Kr[l] * j) - DD[l] * (m * j)])]
        f1 == [j \in 0..m |->
                 IF j = 0 \/ j = m THEN Fin(0)
                 ELSE FresnelSqrt(self.wavelength, x[j], self.dist_m * MmScale - x[j])]
    IN  [x |-> x, y_earth |-> y_earth, y_los |-> y_los, f1 |-> f1,
         obstruction |->
            {j \in 0..m :
                /\ f1[j].k = "fin"
                /\ ClearanceValue(self, m, WSub(y_los[j], y_earth[j]))
                       < f1[j].v * (UmScale \div MmScale)}]

(***************************************************************************)
(* Radio horizon, from the specification (the engine of physics.py has no  *)
(* such calculation): horizon(h) = sqrt(2 Re h), H the sum for both ends.  *)
(***************************************************************************)
\* sqrt(2 Re h), in metres
horizon(self, h) ==
    IF h <= 0 THEN 0 ELSE WSqrt(WMul(WInt(2 * self.eff_earth_radius_m), h))

\* H, in 1/KmScale km
d_horizon_km(self) ==
    ((horizon(self, self.tx_h_m) + horizon(self, self.rx_h_m)) * KmScale) \div 1000

\* D > H exactly, for heights >= 0: with a = 2 Re tx_h and b = 2 Re rx_h,
\* D > sqrt(a) + sqrt(b)  iff  D > 0, D D - a - b > 0 and (D D - a - b)^2 > 4 a b
BeyondHorizon(self) ==
    LET a == WMul(WInt(2 * self.eff_earth_radius_m), self.tx_h_m)
        b == WMul(WInt(2 * self.eff_earth_radius_m), self.rx_h_m)
        e == WSub(WSub(WMul(WInt(self.dist_m), self.dist_m), a), b)
    IN  /\ self.dist_m > 0
        /\ ~WIsNeg(e) /\ ~WIsZero(e)
        /\ WLess(WMul(WMulW(a, b), 4), WMulW(e, e))

(***************************************************************************)
(* Configurations: the arguments of LinkBudget(...).  A geometry is        *)
(* <<freq_mhz, dist_km, tx_h_m, rx_h_m>>, a link is <<bandwidth_mhz,       *)
(* tx_p_dbm, tx_g_dbi, tx_l_db, rx_g_dbi, rx_l_db, rx_nf_db,               *)
(* fade_margin_db, impl_loss_db>>.                                         *)
(***************************************************************************)
Cfg(g, l) ==
    [ freq_mhz |-> g[1], dist_km |-> g[2], tx_h_m |-> g[3], rx_h_m |-> g[4],
      bandwidth_mhz |-> l[1], tx_p_dbm |-> l[2], tx_g_dbi |-> l[3],
      tx_l_db |-> l[4], rx_g_dbi |-> l[5], rx_l_db |-> l[6], rx_nf_db |-> l[7],
      fade_margin_db |-> l[8], impl_loss_db |-> l[9] ]

\* verify.py test cases 1 to 4
GeomA == <<2400, 10 * KmScale, 10, 100>>
GeomB == <<2400, 100 * KmScale, 10, 10>>
GeomC == <<414, 100 * KmScale, 10, 100>>
GeomD == <<414, 54 * KmScale, 10, 100>>
\* 41.17 km from ground level to 100 m: 3.4 m past the radio horizon
GeomEdge == <<2400, 4117, 0, 100>>
\* 0.1 km (the least distance of the app's slider) between two ground-level ends
GeomGround == <<5800, 10, 0, 0>>
\* 150 km (the greatest distance of the slider) between high ends
GeomHigh == <<2400, 150 * KmScale, 100, 1000>>

Geoms == {GeomA, GeomB, GeomC, GeomD, GeomEdge, GeomGround, GeomHigh}

\* verify.py test cases 1 and 2
LinkBare == <<10, 30000, 0, 0, 0, 0, 0, 0, 0>>
\* verify.py test cases 3 and 4
LinkRef == <<5, 50000, 5000, 1000, 1500, 1000, 4000, 10000, 2000>>
\* the defaults of app.py
LinkApp == <<10, 30000, 5000, 1000, 5000, 1000, 4000, 10000, 2000>>
\* a negative fade margin
LinkNegFade == <<10, 30000, 0, 0, 0, 0, 0, -3000, 0>>
\* high-gain antennas
LinkHigh == <<20, 40000, 20000, 500, 20000, 500, 3000, 0, 1000>>

Links == {LinkBare, LinkRef, LinkApp, LinkNegFade, LinkHigh}

\* the transmit power that puts test case 1 of verify.py at an SNR of 10 dB
LinkBoundary == <<10, 26051, 0, 0, 0, 0, 0, 0, 0>>

\* what the number inputs of app.py also accept
Degenerate ==
    { Cfg(<<0, 10 * KmScale, 10, 100>>, LinkBare),
      Cfg(<<-2400, 10 * KmScale, 10, 100>>, LinkBare),
      Cfg(<<2400, 0, 10, 100>>, LinkBare),
      Cfg(<<2400, -10 * KmScale, 10, 100>>, LinkBare),
      Cfg(GeomA, <<0, 30000, 0, 0, 0, 0, 0, 0, 0>>),
      Cfg(GeomA, <<-5, 30000, 0, 0, 0, 0, 0, 0, 0>>),
      Cfg(<<2400, 10 * KmScale, -1, 100>>, LinkBare),
      Cfg(<<2400, 10 * KmScale, 10, -1>>, LinkBare) }

Configs == {Cfg(g, l) : g \in Geoms, l \in Links} \cup {Cfg(GeomA, LinkBoundary)} \cup Degenerate

\* the four objects of verify.py
ParConfigs ==
    {Cfg(GeomA, LinkBare), Cfg(GeomB, LinkBare), Cfg(GeomC, LinkRef), Cfg(GeomD, LinkRef)}

FresnelConfigs ==
    {Cfg(g, LinkBare) : g \in Geoms} \cup
    {cfg \in Degenerate : cfg.freq_mhz < 0 \/ cfg.dist_km < 0}

\* arguments d1_m of calculate_fresnel_radius, in millimetres, around the ends
\* of a path of D millimetres and inside it
FresnelArgs(D) ==
    {-D, -MmScale, -1, 0, 1, MmScale, D \div 4, D \div 2,
     D - MmScale, D - 1, D, D + 1, D + MmScale, 2 * D}

Objs == {"lb", "lb2"}
MaxRuns == 2

(***************************************************************************)
(* State.  For each object name o:                                         *)
(*   args[o]     <<cfg>> once LinkBudget(cfg) has been called, else <<>>   *)
(*   lb[o]       <<the object>> once __init__ has returned, else <<>>      *)
(*   exc[o]      the exception that ended the caller, or NoError           *)
(*   runs[o]     the dicts returned by the calls of run(), in order        *)
(*   formula[o]  the loss formula the last run() evaluated                 *)
(*   fig[o]      <<the arrays of the figure>> once plotted, else <<>>      *)
(*   fres[o]     <<[d1_m, f1]>> of the last calculate_fresnel_radius call  *)
(***************************************************************************)
VARIABLES args, lb, exc, runs, formula, fig, fres

vars == <<args, lb, exc, runs, formula, fig, fres>>

Init ==
    /\ args = [o \in Objs |-> <<>>]
    /\ lb = [o \in Objs |-> <<>>]
    /\ exc = [o \in Objs |-> NoError]
    /\ runs = [o \in Objs |-> <<>>]
    /\ formula = [o \in Objs |-> "none"]
    /\ fig = [o \in Objs |-> <<>>]
    /\ fres = [o \in Objs |-> <<>>]

\* o = LinkBudget(cfg)
Construct(o, cfg) ==
    /\ args[o] = <<>>
    /\ args' = [args EXCEPT ![o] = <<cfg>>]
    /\ IF InitRaises(cfg)
       THEN exc' = [exc EXCEPT ![o] = ZeroDivisionError] /\ lb' = lb
       ELSE lb' = [lb EXCEPT ![o] = <<LinkBudget(cfg)>>] /\ exc' = exc
    /\ UNCHANGED <<runs, formula, fig, fres>>

\* o.run(), at most limit times
Run(o, limit) ==
    /\ lb[o] # <<>> /\ exc[o] = NoError /\ fig[o] = <<>>
    /\ Len(runs[o]) < limit
    /\ \E r \in {run(lb[o][1])} :
           /\ lb' = [lb EXCEPT ![o] = <<attrs_after_run(lb[o][1])>>]
           /\ formula' = [formula EXCEPT ![o] = r.formula]
           /\ IF r.exc # NoError
              THEN exc' = [exc EXCEPT ![o] = r.exc] /\ runs' = runs
              ELSE runs' = [runs EXCEPT ![o] = Append(@, r.val[1])] /\ exc' = exc
    /\ UNCHANGED <<args, fig, fres>>

\* fig = plot_earth_slice(o), after results = o.run() as in app.py
Plot(o) ==
    /\ lb[o] # <<>> /\ exc[o] = NoError /\ fig[o] = <<>>
    /\ Len(runs[o]) > 0
    /\ fig' = [fig EXCEPT ![o] = <<plot_earth_slice(lb[o][1])>>]
    /\ UNCHANGED <<args, lb, exc, runs, formula, fres>>

\* o.calculate_fresnel_radius(d1_m)
Fresnel(o, d1_m) ==
    /\ lb[o] # <<>> /\ exc[o] = NoError
    /\ fres' = [fres EXCEPT ![o] =
                   <<[d1_m |-> d1_m, f1 |-> calculate_fresnel_radius(lb[o][1], d1_m)]>>]
    /\ UNCHANGED <<args, lb, exc, runs, formula, fig>>

\* app.py: one object, run once, then plotted
Next ==
    \/ \E cfg \in Configs : Construct("lb", cfg)
    \/ Run("lb", 1)
    \/ Plot("lb")

Spec == Init /\ [][Next]_vars

\* verify.py, and batches evaluated side by side: several objects, each run
\* again and again in any order
NextPar ==
    \/ \E o \in Objs, cfg \in ParConfigs : Construct(o, cfg)
    \/ \E o \in Objs : Run(o, MaxRuns)

SpecPar == Init /\ [][NextPar]_vars

\* the Fresnel radius on its own
NextFresnel ==
    \/ \E cfg \in FresnelConfigs : Construct("lb", cfg)
    \/ \E d1_m \in FresnelArgs(IF lb["lb"] = <<>> THEN 0 ELSE lb["lb"][1].dist_m * MmScale) :
          Fresnel("lb", d1_m)

SpecFresnel == Init /\ [][NextFresnel]_vars

TypeOK ==
    \A o \in Objs :
        /\ Len(args[o]) <= 1 /\ Len(lb[o]) <= 1 /\ Len(fig[o]) <= 1 /\ Len(fres[o]) <= 1
        /\ exc[o] \in {NoError, ZeroDivisionError}
        /\ formula[o] \in {"none", "knife_edge"}

(***************************************************************************)
(* Vocabulary of the properties.                                           *)
(***************************************************************************)
\* a valid configuration: distance, frequency and bandwidth above 0, heights
\* not below 0
Valid(cfg) ==
    /\ cfg.dist_km > 0 /\ cfg.freq_mhz > 0 /\ cfg.bandwidth_mhz > 0
    /\ cfg.tx_h_m >= 0 /\ cfg.rx_h_m >= 0

Ran(o) == Len(runs[o]) > 0

\* the dict of the last run()
Result(o) == runs[o][Len(runs[o])]

\* x >= y in float64
XGeq(x, y) == XLess(y, x) \/ (x = y /\ x.k # "nan")

ConfigurationError == "ConfigurationError"

(***************************************************************************)
(* C1.  Regime selection by the radio horizon.                             *)
(***************************************************************************)
\* C1: for every valid configuration, run() evaluates the smooth-Earth formula
\* when D > H and the knife-edge formula when D <= H.
C1_RegimeByHorizon ==
    \A o \in Objs :
        (args[o] # <<>> /\ Valid(args[o][1]) /\ formula[o] # "none")
        => formula[o] = IF BeyondHorizon(lb[o][1]) THEN "smooth_earth" ELSE "knife_edge"

\* C1: test case 3 of verify.py has run: 100 km is beyond the 54.2 km horizon,
\* the knife-edge formula was evaluated and gave less than 20 dB and a link
C1_KnifeEdgeBeyondHorizon ==
    \E o \in Objs :
        /\ args[o] = <<Cfg(GeomC, LinkRef)>> /\ Ran(o)
        /\ BeyondHorizon(lb[o][1])
        /\ formula[o] = "knife_edge"
        /\ Result(o).diffraction_loss < 20 * DbScale
        /\ Result(o).modulation # "No Link"

(***************************************************************************)
(* C2.  Validation of the configuration.                                   *)
(***************************************************************************)
\* C2: once the engine has been constructed and run (a result returned or an
\* exception raised), a configuration that is not valid has ended in a
\* ConfigurationError with no object computed and no result, and a valid one
\* in a result.
C2_InvalidRejected ==
    \A o \in Objs :
        (exc[o] # NoError \/ Ran(o))
        => IF Valid(args[o][1])
           THEN exc[o] = NoError /\ Ran(o)
           ELSE exc[o] = ConfigurationError /\ lb[o] = <<>> /\ runs[o] = <<>>

\* C2: a transmitter 1 m below ground was accepted and run() returned a result
C2_NegativeHeightAccepted ==
    \E o \in Objs :
        /\ args[o] # <<>> /\ args[o][1].tx_h_m < 0
        /\ exc[o] = NoError /\ Ran(o)
        /\ IsFin(Result(o).snr)

(***************************************************************************)
(* C3.  Lower bounds of the losses.                                        *)
(***************************************************************************)
LossBounds(o) ==
    /\ Result(o).diffraction_loss >= 0
    /\ XGeq(Result(o).total_loss, Result(o).fspl)

NonNegLosses(cfg) ==
    /\ cfg.tx_l_db >= 0 /\ cfg.rx_l_db >= 0
    /\ cfg.impl_loss_db >= 0 /\ cfg.fade_margin_db >= 0

\* C3 as stated: for every valid configuration, whatever the cable losses, the
\* implementation loss and the fade margin, diffraction_loss >= 0 and
\* total_loss >= fspl.
C3_LossBoundsAnyMargins ==
    \A o \in Objs : (Ran(o) /\ Valid(args[o][1])) => LossBounds(o)

\* C3: for every valid configuration diffraction_loss >= 0, and total_loss >=
\* fspl when the cable losses, the implementation loss and the fade margin are
\* not below 0.
C3_LossBounds ==
    \A o \in Objs :
        (Ran(o) /\ Valid(args[o][1]))
        => /\ Result(o).diffraction_loss >= 0
           /\ NonNegLosses(args[o][1]) => LossBounds(o)

\* C3: a valid configuration with losses above 0 has run, with a diffraction
\* loss above 0
C3_LossyRun ==
    \E o \in Objs :
        /\ Ran(o) /\ Valid(args[o][1]) /\ NonNegLosses(args[o][1])
        /\ args[o][1].fade_margin_db > 0
        /\ Result(o).diffraction_loss > 0
        /\ XLess(Result(o).fspl, Result(o).total_loss)

(***************************************************************************)
(* C4.  The modulation tiers.                                              *)
(***************************************************************************)
\* the table of the claim: <<least SNR, first SNR above, name, efficiency>>,
\* the first tier open below and the last open above
TierTable ==
    { <<NInf, Fin(6 * DbScale), "No Link", 0>>,
      <<Fin(6 * DbScale), Fin(10 * DbScale), "QPSK 1/2", 1 * EffScale>>,
      <<Fin(10 * DbScale), Fin(15 * DbScale), "16QAM 1/2", 2 * EffScale>>,
      <<Fin(15 * DbScale), Fin(20 * DbScale), "16QAM 3/4", 3 * EffScale>>,
      <<Fin(20 * DbScale), Fin(25 * DbScale), "64QAM 2/3", 4 * EffScale>>,
      <<Fin(25 * DbScale), Fin(30 * DbScale), "64QAM 3/4", (9 * EffScale) \div 2>>,
      <<Fin(30 * DbScale), PInf, "256QAM", 6 * EffScale>> }

\* the tiers an SNR belongs to
TiersOf(snr) ==
    {t \in TierTable :
        /\ XGeq(snr, t[1])
        /\ XLess(snr, t[2]) \/ (t[2] = PInf /\ snr.k # "nan")}

\* C4: every SNR is mapped to exactly one tier of the table, a boundary value
\* to the higher tier, throughput_mbps is the tier's efficiency times the
\* bandwidth in MHz, and it is 0 exactly when the tier is 'No Link'.
C4_TierAndThroughput ==
    \A o \in Objs :
        Ran(o) =>
            /\ \E t \in TierTable :
                  /\ TiersOf(Result(o).snr) = {t}
                  /\ Result(o).modulation = t[3]
                  /\ Result(o).throughput_mbps = t[4] * lb[o][1].bandwidth_mhz
            /\ (Result(o).throughput_mbps = 0) <=> (Result(o).modulation = "No Link")

\* C4: a bandwidth of 0 MHz was accepted: the noise floor is -inf, the SNR
\* +inf, the tier '256QAM' and the throughput 0
C4_ZeroBandwidthTopTier ==
    \E o \in Objs :
        /\ Ran(o) /\ lb[o][1].bandwidth_mhz = 0
        /\ Result(o).snr = PInf
        /\ Result(o).modulation = "256QAM"
        /\ Result(o).throughput_mbps = 0

(***************************************************************************)
(* C5.  The aggregation identities.                                        *)
(***************************************************************************)
\* C5: for every valid configuration, total_loss = fspl + diffraction_loss +
\* tx cable loss + rx cable loss + implementation loss + fade margin (with the
\* diffraction_loss of the result), rsl = tx power + (tx gain + rx gain) -
\* total_loss, and snr = rsl - noise_floor.
C5_Aggregation ==
    \A o \in Objs :
        (Ran(o) /\ Valid(args[o][1])) =>
            LET cfg == args[o][1]
                res == Result(o)
            IN  /\ IsFin(res.fspl) /\ IsFin(res.total_loss) /\ IsFin(res.rsl)
                /\ IsFin(res.noise_floor) /\ IsFin(res.snr)
                /\ res.total_loss.v = res.fspl.v + res.diffraction_loss + cfg.tx_l_db
                                      + cfg.rx_l_db + cfg.impl_loss_db + cfg.fade_margin_db
                /\ res.rsl.v = cfg.tx_p_dbm + (cfg.tx_g_dbi + cfg.rx_g_dbi)
                               - res.total_loss.v
                /\ res.snr.v = res.rsl.v - res.noise_floor.v

\* C5: test case 3 of verify.py has run: every term of the sums is above 0
C5_EveryTermPresent ==
    \E o \in Objs :
        /\ Ran(o) /\ Valid(args[o][1])
        /\ Result(o).diffraction_loss > 0
        /\ args[o][1].tx_l_db > 0 /\ args[o][1].rx_l_db > 0
        /\ args[o][1].impl_loss_db > 0 /\ args[o][1].fade_margin_db > 0
        /\ args[o][1].tx_g_dbi > 0 /\ args[o][1].rx_g_dbi > 0
        /\ Result(o).noise_floor.v < 0

C7_HorizonInResult ==
    \A o \in Objs :
        (Ran(o) /\ Valid(args[o][1]))
        => /\ "d_horizon_km" \in DOMAIN Result(o)
           /\ Result(o).d_horizon_km = d_horizon_km(lb[o][1])

\* C7: test case 1 of verify.py has run and its result has no 'd_horizon_km'
C7_NoHorizonKey ==
    \E o \in Objs :
        /\ args[o] = <<Cfg(GeomA, LinkBare)>> /\ Ran(o)
        /\ "d_horizon_km" \notin DOMAIN Result(o)
        /\ "min_clearance" \in DOMAIN Result(o)

(***************************************************************************)
(* C8.  Beyond the radio horizon.                                          *)
(***************************************************************************)
\* C8: for every valid configuration with D > H, the result has is_los false
\* and diffraction_loss > 0.
C8_BeyondHorizonNotLos ==
    \A o \in Objs :
        (Ran(o) /\ Valid(args[o][1]) /\ BeyondHorizon(lb[o][1]))
        => /\ ~Result(o).is_los
           /\ Result(o).diffraction_loss > 0

\* C8: a 41.17 km path from ground level to 100 m, beyond the horizon of
\* 41.1666 km, has run with is_los true: the ray is below the surface only in
\* the first 7 m, before the first sample at 41.2 m
C8_LosPastHorizon ==
    \E o \in Objs :
        /\ Ran(o) /\ args[o][1].dist_km = GeomEdge[2] /\ args[o][1].tx_h_m = 0
        /\ Valid(args[o][1]) /\ BeyondHorizon(lb[o][1])
        /\ Result(o).is_los
        /\ Result(o).min_clearance > 0

(***************************************************************************)
(* C9.  The Fresnel radius at and between the ends.                        *)
(***************************************************************************)
\* C9: on a path of length D > 0 with a wavelength > 0,
\* calculate_fresnel_radius(d1) is exactly 0 for d1 <= 0 and for d1 >= D, and
\* above 0 for 0 < d1 < D (d1 in whole millimetres, from a path length before
\* the near end to twice the path length).
C9_FresnelEnds ==
    \A o \in Objs :
        (fres[o] # <<>> /\ lb[o][1].dist_m > 0 /\ lb[o][1].wavelength > 0)
        => LET d1_m == fres[o][1].d1_m
               f1 == fres[o][1].f1
           IN  IF d1_m <= 0 \/ d1_m >= lb[o][1].dist_m * MmScale
               THEN f1 = Fin(0)
               ELSE IsFin(f1) /\ f1.v > 0

\* C9: the radius was asked 1 mm before the far end of a path and is above 0
C9_InsideNearEnd ==
    \E o \in Objs :
        /\ fres[o] # <<>> /\ lb[o][1].dist_m > 0 /\ lb[o][1].wavelength > 0
        /\ fres[o][1].d1_m = lb[o][1].dist_m * MmScale - 1
        /\ IsFin(fres[o][1].f1) /\ fres[o][1].f1.v > 0

(***************************************************************************)
(* C10.  The plotted geometry and the scalar result.                       *)
(***************************************************************************)
\* the plotted sample of least y_los - y_earth, the two ends apart
FigWorst(f) ==
    argmin([j \in 0..(VizPoints - 1) |-> WSub(f.y_los[j], f.y_earth[j])],
           1, VizPoints - 2)

\* y_los - y_earth of every plotted sample is h_ray - h_bulge of
\* calculate_diffraction_loss at that sample's distance
FigClearanceIsEngine(self, f) ==
    LET m == VizPoints - 1
        K == WMul(WInt(2 * self.eff_earth_radius_m), m)
        Kt == WMul(K, self.tx_h_m)
        Kr == WMul(K, self.rx_h_m)
        DD == WMul(WInt(self.dist_m), self.dist_m)
    IN  \A j \in 0..m :
            WSub(f.y_los[j], f.y_earth[j]) = ClearanceAt(m, Kt, Kr, DD, j)

Plotted(o) == fig[o] # <<>> /\ Ran(o) /\ Valid(args[o][1])

LeftmostMin(vec, i, lo, hi) ==
    /\ \A j \in lo..hi : ~WLess(vec[j], vec[i])
    /\ \A j \in lo..(i - 1) : WLess(vec[i], vec[j])

\* res reports sample i of the grid of self as its worst point
ReportsSample(self, res, vec, i) ==
    /\ res.d_obstruction = d_vec(self, i)
    /\ res.min_clearance = ClearanceValue(self, steps - 1, vec[i])

\* C11: for every object with D > 0 that has run, the worst point is the sample
\* of the 1000-point grid with the least clearance among the samples other than
\* the two endpoints, the one at the lowest distance among equal minima;
\* d_obstruction lies strictly between 0 and D and min_clearance is the
\* clearance at exactly that sample.
C11_WorstPoint ==
    \A o \in Objs :
        (Ran(o) /\ lb[o][1].dist_m > 0) =>
            /\ \E vec \in {clearance_vec(lb[o][1])} :
                   \E i \in 1..(steps - 2) :
                       /\ ReportsSample(lb[o][1], Result(o), vec, i)
                       /\ LeftmostMin(vec, i, 1, steps - 2)
            /\ Result(o).d_obstruction > 0
            /\ Result(o).d_obstruction < lb[o][1].dist_m * MmScale

\* C11 witness: a symmetric path (both ends at 10 m over 100 km) has run; two
\* neighbouring samples share the least clearance, and the one nearer the
\* transmitter is reported.
C11_TieBrokenLeft ==
    /\ Ran("lb")
    /\ args["lb"] = <<Cfg(GeomB, LinkBare)>>
    /\ \E vec \in {clearance_vec(lb["lb"][1])} :
           \E i \in 1..(steps - 3) :
               /\ LeftmostMin(vec, i, 1, steps - 2)
               /\ ~WLess(vec[i], vec[i + 1])
               /\ ReportsSample(lb["lb"][1], Result("lb"), vec, i)
               /\ d_vec(lb["lb"][1], i) < d_vec(lb["lb"][1], i + 1)

(***************************************************************************)
(* C12.  The knife-edge loss around v = -0.7.                              *)
(***************************************************************************)
\* two neighbouring settings of the distance slider of app.py, 9.6 km and
\* 9.7 km between ends at 10 m: v is -0.7055 at the first, -0.6995 at the second
GeomClear == <<2400, 960, 10, 10>>
GeomGraze == <<2400, 970, 10, 10>>

\* paths well clear, either side of v = -0.7 and obstructed, a negative distance
\* (F1 = 0 at the worst point) and a negative frequency (F1 = nan)
KnifeConfigs ==
    {Cfg(g, LinkBare) : g \in {GeomA, GeomB, GeomClear, GeomGraze}} \cup
    {cfg \in Degenerate : cfg.freq_mhz < 0 \/ cfg.dist_km < 0}

\* several objects, each run once
NextKnife ==
    \/ \E o \in Objs, cfg \in KnifeConfigs : Construct(o, cfg)
    \/ \E o \in Objs : Run(o, 1)

SpecKnife == Init /\ [][NextKnife]_vars

\* -min_clearance * sqrt(2) / F1 <= -0.7 for F1 > 0, cross-multiplied:
\* min_clearance * sqrt(2) >= 0.7 * F1 (min_clearance in micrometres, F1 in
\* millimetres)
VAtMostThreshold(min_clearance, f1) ==
    ~WLess(WMul(WInt(min_clearance), sqrt2),
           WMul(WMul(WMul(WInt(f1), 700), MmScale), MmScale))

\* the loss of res follows the knife-edge rule
KnifeEdgeRule(res) ==
    /\ res.diffraction_loss >= 0
    /\ res.f1_at_obstruction = Fin(0) => res.diffraction_loss = 0
    /\ (IsFin(res.f1_at_obstruction) /\ res.f1_at_obstruction.v > 0) =>
           IF VAtMostThreshold(res.min_clearance, res.f1_at_obstruction.v)
           THEN res.diffraction_loss = 0
           ELSE res.diffraction_loss =
                    Max(KnifeEdgeLoss(VParam(res.min_clearance, res.f1_at_obstruction.v)), 0)
    /\ res.diffraction_loss # 0 =>
           /\ IsFin(res.f1_at_obstruction) /\ res.f1_at_obstruction.v > 0
           /\ ~VAtMostThreshold(res.min_clearance, res.f1_at_obstruction.v)

\* C12: for every object that has run, with v = -min_clearance * sqrt(2) / F1,
\* the loss is exactly 0 when v <= -0.7 and when F1 is exactly 0; only when
\* v > -0.7 is it the logarithmic formula at v, floored at 0.
C12_KnifeEdge ==
    \A o \in Objs : Ran(o) => \E res \in {Result(o)} : KnifeEdgeRule(res)

\* C12 witness: both paths have run; at 9.6 km the clearance is positive, v is
\* at most -0.7 and the loss is exactly 0, at 9.7 km v is above -0.7 and the
\* loss is the formula's, above 0.
C12_EitherSideOfThreshold ==
    /\ Ran("lb") /\ args["lb"] = <<Cfg(GeomClear, LinkBare)>>
    /\ Ran("lb2") /\ args["lb2"] = <<Cfg(GeomGraze, LinkBare)>>
    /\ \E a \in {Result("lb")}, b \in {Result("lb2")} :
           /\ a.min_clearance > 0 /\ IsFin(a.f1_at_obstruction)
           /\ a.f1_at_obstruction.v > 0
           /\ VAtMostThreshold(a.min_clearance, a.f1_at_obstruction.v)
           /\ a.diffraction_loss = 0
           /\ b.min_clearance > 0 /\ IsFin(b.f1_at_obstruction)
           /\ b.f1_at_obstruction.v > 0
           /\ ~VAtMostThreshold(b.min_clearance, b.f1_at_obstruction.v)
           /\ b.diffraction_loss > 0

=============================================================================
